---- MODULE Spec2Model ----
(***************************************************************************)
(* Model of the daily price-history downloader (download_data.py) and the  *)
(* abandoned-symbol sweeper (remove_abondoned_data.py).                    *)
(*                                                                         *)
(* Dates are day ordinals (as datetime.date.toordinal()).  The TEXT form   *)
(* stored in stock_data.date is a fixed-width, zero-padded digit string,   *)
(* the property of the ISO-8601 form that SQLite's MAX(date) over TEXT     *)
(* relies on; it is modelled as a sequence of decimal digits compared      *)
(* lexicographically.  A table is a bag of rows, so that a duplicated row  *)
(* is representable.                                                       *)
(***************************************************************************)
EXTENDS Integers, Sequences, FiniteSets, Bags, TLC

VARIABLES clock, today, pc, idx, decision, start_date, end_date,
          df, rowIdx, db, txn,
          tables, tickersTbl, sweepStatus, abandoned, auxBefore,
          fetchedKeys, before, once, twice

vars == <<clock, today, pc, idx, decision, start_date, end_date,
          df, rowIdx, db, txn,
          tables, tickersTbl, sweepStatus, abandoned, auxBefore,
          fetchedKeys, before, once, twice>>

syncVars == <<today, pc, idx, decision, start_date, end_date, df, rowIdx, txn>>
sweepVars == <<sweepStatus, abandoned, auxBefore>>
ghostVars == <<fetchedKeys, before, once, twice>>

\* ---------------------------------------------------------------- bounds
Day0 == 8000        \* ordinal of the first day on which a script is run
DateWidth == 4      \* digits of the TEXT form of a date
MaxElapsed == 361   \* days between the first and the last execution of a script
MaxBatch == 2       \* rows in one fetched frame

\* ------------------------------------------------------ program constants
years == 20
abandon_days == 180
cutoff_days == 180

\* ------------------------------------------------------------- inputs
tickers == <<"AAA", "BBB">>
Symbols == {tickers[i] : i \in 1..Len(tickers)}
\* elapsed days between two executions of the downloader
Jumps == {0, abandon_days, abandon_days + 1}
\* the provider's (Close, Adj Close) cells; "NA" is a missing / NaN cell
BarValues == {[Close |-> "p1", AdjClose |-> "p1"], [Close |-> "p2", AdjClose |-> "NA"]}

\* --------------------------------------------------------- date <-> TEXT
RECURSIVE Pow10(_)
Pow10(n) == IF n = 0 THEN 1 ELSE 10 * Pow10(n - 1)

\* df["date"].astype(str): fixed-width zero-padded text
DateStr(d) == [i \in 1..DateWidth |-> (d \div Pow10(DateWidth - i)) % 10]

RECURSIVE ParseFrom(_, _)
ParseFrom(s, n) == IF n = 0 THEN 0 ELSE 10 * ParseFrom(s, n - 1) + s[n]

\* pd.to_datetime(text).date()
to_datetime(s) == ParseFrom(s, Len(s))

\* SQLite TEXT comparison (BINARY collation): lexicographic, shorter prefix first
RECURSIVE TextLess(_, _)
TextLess(a, b) ==
    IF a = <<>> THEN b # <<>>
    ELSE IF b = <<>> THEN FALSE
    ELSE IF a[1] # b[1] THEN a[1] < b[1]
    ELSE TextLess(Tail(a), Tail(b))

\* ------------------------------------------------------------ stock_data
RowsOf(tbl, t) == {r \in BagToSet(tbl) : r.ticker = t}

MinText(S) == CHOOSE s \in S : \A u \in S : u = s \/ TextLess(s, u)
MaxText(S) == CHOOSE s \in S : \A u \in S : u = s \/ TextLess(u, s)

None == <<>>

get_latest_date_min(tbl, t) ==
    LET ds == {r.date : r \in RowsOf(tbl, t)}
    IN IF ds = {} THEN None ELSE MinText(ds)

\* SELECT MAX(date) FROM stock_data WHERE ticker=:ticker
get_latest_date(tbl, t) ==
    LET ds == {r.date : r \in RowsOf(tbl, t)}
    IN IF ds = {} THEN None ELSE MaxText(ds)

InsertPlain(tbl, row) == tbl (+) SetToBag({row})

\* INSERT OR REPLACE under PRIMARY KEY (ticker, date)
InsertOrReplace(tbl, row) ==
    LET keep == {r \in BagToSet(tbl) : ~(r.ticker = row.ticker /\ r.date = row.date)}
    IN [r \in keep |-> tbl[r]] (+) SetToBag({row})

\* pd.NA / nan -> None
Coerce(v) == IF v = "NA" THEN "None" ELSE v

\* rename, reorder, astype(str), null coercion of one frame row
NormaliseRow(bar) ==
    [ticker |-> bar.ticker, date |-> DateStr(bar.Date),
     close |-> Coerce(bar.Close), adj_close |-> Coerce(bar.AdjClose)]

Normalise(frame) == [i \in 1..Len(frame) |-> NormaliseRow(frame[i])]

\* df['ticker'] = ticker
Stamp(frame, t) ==
    [i \in 1..Len(frame) |->
        [ticker |-> t, Date |-> frame[i].Date,
         Close |-> frame[i].Close, AdjClose |-> frame[i].AdjClose]]

RECURSIVE WriteRows(_, _, _)
WriteRows(tbl, rows, k) ==
    IF k > Len(rows) THEN tbl
    ELSE WriteRows(InsertOrReplace(tbl, rows[k]), rows, k + 1)

RECURSIVE AppendRows(_, _, _)
AppendRows(tbl, rows, k) ==
    IF k > Len(rows) THEN tbl
    ELSE AppendRows(InsertPlain(tbl, rows[k]), rows, k + 1)

upsert_append(tbl, frame) ==
    IF frame = <<>> THEN tbl ELSE AppendRows(tbl, Normalise(frame), 1)

\* upsert_to_db(df), the committed result of the whole call
upsert_to_db(tbl, frame) ==
    IF frame = <<>> THEN tbl ELSE WriteRows(tbl, Normalise(frame), 1)

RollbackKeepsWrites(committed, uncommitted) == uncommitted

\* engine.begin(): leaving the block by an exception (or losing the process)
\* discards the uncommitted writes
RollbackTo(committed, uncommitted) == committed

\* --------------------------------------------------------------- planner
start_full(T) == T - years * 365

IsAbandonedInclusive(days_since_update) == days_since_update >= abandon_days

\* days_since_update > abandon_days
IsAbandoned(days_since_update) == days_since_update > abandon_days

NextStartSameDay(latest) == to_datetime(latest)

\* pd.to_datetime(latest) + pd.Timedelta(days=1)
NextStart(latest) == to_datetime(latest) + 1

PlanNoContinue(latest, T) ==
    IF latest # None
    THEN IF IsAbandoned(T - to_datetime(latest))
         THEN [decision |-> "SKIP_ABANDONED", start |-> NextStart(latest), fetch |-> TRUE]
         ELSE IF NextStart(latest) > T
              THEN [decision |-> "SKIP_CURRENT", start |-> NextStart(latest), fetch |-> FALSE]
              ELSE [decision |-> "FETCH", start |-> NextStart(latest), fetch |-> TRUE]
    ELSE [decision |-> "FETCH", start |-> start_full(T), fetch |-> TRUE]

\* body of the for loop up to the download call; fetch is FALSE where the
\* iteration ends by continue
Plan(latest, T) ==
    IF latest # None
    THEN IF IsAbandoned(T - to_datetime(latest))
         THEN [decision |-> "SKIP_ABANDONED", start |-> 0, fetch |-> FALSE]
         ELSE IF NextStart(latest) > T
              THEN [decision |-> "SKIP_CURRENT", start |-> NextStart(latest), fetch |-> FALSE]
              ELSE [decision |-> "FETCH", start |-> NextStart(latest), fetch |-> TRUE]
    ELSE [decision |-> "FETCH", start |-> start_full(T), fetch |-> TRUE]

\* --------------------------------------------------------------- fetcher
\* the days for which the provider has a bar: the first day of the full
\* history window, the first run's day, and the days at and one past the
\* abandon threshold after it
TradingDays ==
    {Day0 - years * 365, Day0, Day0 + abandon_days, Day0 + abandon_days + 1}

\* start=start_date, end=today + 1 day (exclusive)
FetchDates(start, endExcl) == {d \in TradingDays : start <= d /\ d < endExcl}

Bars(start, endExcl) ==
    {[Date |-> d, Close |-> v.Close, AdjClose |-> v.AdjClose] :
        d \in FetchDates(start, endExcl), v \in BarValues}

\* yf.download(...): a frame indexed by strictly increasing dates, possibly empty
Frames(start, endExcl) ==
    UNION {{f \in [1..n -> Bars(start, endExcl)] :
                \A i \in 1..(n - 1) : f[i].Date < f[i + 1].Date} : n \in 0..MaxBatch}

\* ------------------------------------------------------------ initial state
NoDecision == [t \in Symbols |-> "NONE"]

InitCommon ==
    /\ clock = Day0
    /\ today = Day0
    /\ pc = "idle"
    /\ idx = 1
    /\ decision = NoDecision
    /\ start_date = 0
    /\ end_date = 0
    /\ df = <<>>
    /\ rowIdx = 1
    /\ db = EmptyBag
    /\ txn = EmptyBag
    /\ sweepStatus = "idle"
    /\ abandoned = {}
    /\ auxBefore = {}
    /\ fetchedKeys = {}
    /\ before = EmptyBag
    /\ once = EmptyBag
    /\ twice = EmptyBag

\* CREATE TABLE IF NOT EXISTS stock_data; the tickers table is externally owned
Init ==
    /\ InitCommon
    /\ \/ tables = {"stock_data"} /\ tickersTbl = {}
       \/ tables = {"stock_data", "tickers"} /\ tickersTbl = Symbols

\* ------------------------------------------------------- download_data.py
\* the script is started: today = datetime.datetime.now().date()
StartRun ==
    /\ pc \in {"idle", "done", "aborted"}
    /\ \E j \in Jumps :
        /\ clock + j <= Day0 + MaxElapsed
        /\ clock' = clock + j
        /\ today' = clock + j
    /\ pc' = "loop"
    /\ idx' = 1
    /\ sweepStatus' = "idle"
    /\ abandoned' = {}
    /\ auxBefore' = {}
    /\ df' = <<>>
    /\ rowIdx' = 1
    /\ UNCHANGED <<decision, start_date, end_date, db, txn,
                   tables, tickersTbl, ghostVars>>

\* the for loop is exhausted
EndRun ==
    /\ pc = "loop"
    /\ idx > Len(tickers)
    /\ pc' = "done"
    /\ start_date' = 0
    /\ end_date' = 0
    /\ UNCHANGED <<clock, today, idx, decision, df, rowIdx,
                   db, txn, tables, tickersTbl, sweepVars, ghostVars>>

\* one iteration up to the download call: abandoned, up to date or fetch
PlanTicker ==
    /\ pc = "loop"
    /\ idx <= Len(tickers)
    /\ LET t == tickers[idx]
           p == Plan(get_latest_date(db, t), today)
       IN /\ decision' = [decision EXCEPT ![t] = p.decision]
          /\ start_date' = IF p.decision = "SKIP_ABANDONED" THEN start_date ELSE p.start
          /\ IF p.fetch
             THEN /\ pc' = "fetch"
                  /\ end_date' = today + 1
                  /\ idx' = idx
             ELSE /\ pc' = "loop"
                  /\ end_date' = end_date
                  /\ idx' = idx + 1
    /\ UNCHANGED <<clock, today, df, rowIdx, db, txn,
                   tables, tickersTbl, sweepVars, ghostVars>>

\* yf.download returns; an empty frame continues, otherwise the frame is
\* stamped, normalised and the write transaction is opened
Fetch ==
    /\ pc = "fetch"
    /\ \E f \in Frames(start_date, end_date) :
        IF f = <<>>
        THEN /\ pc' = "loop"
             /\ idx' = idx + 1
             /\ UNCHANGED <<df, rowIdx, txn, fetchedKeys>>
        ELSE /\ pc' = "upsert"
             /\ idx' = idx
             /\ df' = Normalise(Stamp(f, tickers[idx]))
             /\ rowIdx' = 1
             /\ txn' = db
             /\ UNCHANGED fetchedKeys
    /\ UNCHANGED <<clock, today, decision, start_date, end_date, db,
                   tables, tickersTbl, sweepVars, before, once, twice>>

\* yf.download raises: nothing in the loop catches it, the script ends
FetchRaises ==
    /\ pc = "fetch"
    /\ pc' = "aborted"
    /\ start_date' = 0
    /\ end_date' = 0
    /\ UNCHANGED <<clock, today, idx, decision, df, rowIdx,
                   db, txn, tables, tickersTbl, sweepVars, ghostVars>>

\* one conn.execute(INSERT OR REPLACE ...) inside the transaction
UpsertRow ==
    /\ pc = "upsert"
    /\ rowIdx <= Len(df)
    /\ txn' = InsertOrReplace(txn, df[rowIdx])
    /\ rowIdx' = rowIdx + 1
    /\ UNCHANGED <<clock, today, pc, idx, decision, start_date, end_date, df,
                   db, tables, tickersTbl, sweepVars, ghostVars>>

\* the with block is left normally: COMMIT, then the next ticker
UpsertCommit ==
    /\ pc = "upsert"
    /\ rowIdx > Len(df)
    /\ db' = txn
    /\ txn' = EmptyBag
    /\ df' = <<>>
    /\ rowIdx' = 1
    /\ pc' = "loop"
    /\ idx' = idx + 1
    /\ UNCHANGED <<clock, today, decision, start_date, end_date,
                   tables, tickersTbl, sweepVars, ghostVars>>

\* a statement of the batch raises, or the process is lost, before COMMIT:
\* the transaction is rolled back and the script ends
UpsertAbort ==
    /\ pc = "upsert"
    /\ db' = RollbackTo(db, txn)
    /\ txn' = EmptyBag
    /\ start_date' = 0
    /\ end_date' = 0
    /\ pc' = "aborted"
    /\ UNCHANGED <<clock, today, idx, decision, df, rowIdx,
                   tables, tickersTbl, sweepVars, ghostVars>>

\* ------------------------------------------------ remove_abondoned_data.py
\* names bound by the import statements of the sweeper
SweeperImports == {"pd", "create_engine", "datetime"}

\* SELECT ticker, MAX(date) ... GROUP BY ticker; days_since_update > cutoff_days
AbandonedAt(tbl, T) ==
    {t \in {r.ticker : r \in BagToSet(tbl)} :
        T - to_datetime(MaxText({r.date : r \in RowsOf(tbl, t)})) > cutoff_days}

SweeperDeletesBars(tbl, ab) ==
    LET keep == {r \in BagToSet(tbl) : r.ticker \notin ab}
    IN [r \in keep |-> tbl[r]]

\* the statements the sweeper issues against stock_data: the SELECT only
SweeperStockData(tbl, ab) == tbl

\* the whole script, run while the downloader is not running
Sweep ==
    /\ pc \in {"idle", "done", "aborted"}
    /\ LET ab == AbandonedAt(db, clock)
       IN /\ abandoned' = ab
          /\ auxBefore' = tickersTbl
          /\ db' = SweeperStockData(db, ab)
          /\ IF "tickers" \in tables
             THEN IF ab = {}
                  THEN /\ sweepStatus' = "done"
                       /\ tickersTbl' = tickersTbl
                  ELSE IF "text" \in SweeperImports
                       THEN /\ sweepStatus' = "done"
                            /\ tickersTbl' = tickersTbl \ ab
                       ELSE \* NameError in the first iteration, rolled back
                            /\ sweepStatus' = "crashed"
                            /\ tickersTbl' = tickersTbl
             ELSE /\ sweepStatus' = "skipped"
                  /\ tickersTbl' = tickersTbl
    /\ UNCHANGED <<clock, syncVars, tables, ghostVars>>

Next ==
    \/ StartRun
    \/ EndRun
    \/ PlanTicker
    \/ Fetch
    \/ FetchRaises
    \/ UpsertRow
    \/ UpsertCommit
    \/ UpsertAbort
    \/ Sweep

Spec == Init /\ [][Next]_vars

\* ------------------------------------------------- upsert_to_db on its own
\* the days of the frames handed to upsert_to_db
UDays == {Day0, Day0 + 1}

UBars == {[Date |-> d, Close |-> v.Close, AdjClose |-> v.AdjClose] :
            d \in UDays, v \in BarValues}

\* any non-empty frame, repeated dates included
UFrames == UNION {[1..n -> UBars] : n \in 1..MaxBatch}

InitU ==
    /\ InitCommon
    /\ tables = {"stock_data"}
    /\ tickersTbl = {}

\* df['ticker'] = ticker; upsert_to_db(df), committed; once and twice are the
\* table after one and after two applications of the same frame
ReconcileCall ==
    /\ \E t \in Symbols, f \in UFrames :
        LET frame == Stamp(f, t)
        IN /\ df' = Normalise(frame)
           /\ before' = db
           /\ db' = upsert_to_db(db, frame)
           /\ once' = db'
           /\ twice' = upsert_to_db(db', frame)
           /\ fetchedKeys' = fetchedKeys \cup {<<t, f[i].Date>> : i \in 1..Len(f)}
    /\ UNCHANGED <<clock, today, pc, idx, decision, start_date, end_date, rowIdx,
                   txn, tables, tickersTbl, sweepVars>>

NextU == ReconcileCall

SpecU == InitU /\ [][NextU]_vars

\* ------------------------------------------------------------ properties
\* the stored days of a symbol, read as dates and compared as numbers
StoredDays(tbl, t) == {to_datetime(r.date) : r \in RowsOf(tbl, t)}
LatestDay(tbl, t) == CHOOSE d \in StoredDays(tbl, t) : \A e \in StoredDays(tbl, t) : e <= d

\* a step of the loop body that plans the ticker at position idx
PlanStep == pc = "loop" /\ idx <= Len(tickers) /\ (pc' = "fetch" \/ idx' = idx + 1)

C2_MonotonicPlanning ==
    [][PlanStep =>
        LET t == tickers[idx]
        IN IF StoredDays(db, t) = {}
           THEN /\ decision'[t] = "FETCH" /\ pc' = "fetch"
                /\ start_date' = today - years * 365
                /\ end_date' - 1 = today
           ELSE LET D == LatestDay(db, t)
                IN (today >= D /\ today - D <= abandon_days) =>
                     IF D + 1 > today
                     THEN decision'[t] = "SKIP_CURRENT" /\ pc' = "loop" /\ db' = db
                     ELSE /\ decision'[t] = "FETCH" /\ pc' = "fetch"
                          /\ start_date' = D + 1
                          /\ end_date' - 1 = today]_vars

C2_Witness ==
    /\ pc = "fetch"
    /\ StoredDays(db, tickers[idx]) # {}
    /\ start_date = LatestDay(db, tickers[idx]) + 1
    /\ start_date < today
    /\ \E t \in Symbols : decision[t] = "SKIP_CURRENT"

\* C3: applying the same frame to the table twice leaves exactly the table
\* that applying it once leaves (same rows, same counts, same values).
C3_UpsertIdempotent == once = twice

C3_Witness ==
    /\ before # EmptyBag
    /\ Len(df) = 2
    /\ df[1].date = df[2].date
    /\ df[1] # df[2]
    /\ db # before
    /\ once = db

\* C4: the table never holds two rows for one (ticker, date); a key that is
\* written again keeps only the last written values; and no symbol has more
\* stored dates than distinct dates were fetched for it.
C4_OneRowPerKey ==
    /\ \A r \in BagToSet(db) : CopiesIn(r, db) = 1
    /\ \A r1, r2 \in BagToSet(db) :
         (r1.ticker = r2.ticker /\ r1.date = r2.date) => r1 = r2
    /\ df # <<>> =>
         \A i \in 1..Len(df) :
            (\A j \in (i + 1)..Len(df) : df[j].date # df[i].date) =>
                CopiesIn(df[i], db) = 1
    /\ \A t \in Symbols :
         Cardinality({r.date : r \in RowsOf(db, t)})
            <= Cardinality({k \in fetchedKeys : k[1] = t})

C4_Witness ==
    /\ Len(df) = 1
    /\ \E r \in BagToSet(before) :
         /\ r.ticker = df[1].ticker
         /\ r.date = df[1].date
         /\ r # df[1]
         /\ ~BagIn(r, db)
    /\ BagIn(df[1], db)
    /\ BagCardinality(db) = BagCardinality(before)

\* C5: no run of the downloader ends before every symbol of the ticker list
\* has been processed: a failing fetch or upsert does not halt the batch.
C5_FailuresIsolated ==
    pc \in {"done", "aborted"} => idx = Len(tickers) + 1

\* C6: when the tickers table exists, a sweep completes and leaves in it
\* exactly the symbols that were there and are not abandoned.
C6_SweepRemoves ==
    (sweepStatus # "idle" /\ "tickers" \in tables) =>
        /\ sweepStatus = "done"
        /\ tickersTbl = auxBefore \ abandoned

\* C7: the committed table changes only by the commit of a whole batch, to
\* the table with every row of the batch applied; a batch that ends before
\* its commit leaves the committed table exactly as it was.
C7_BatchAtomic ==
    [][/\ db' # db =>
            /\ pc = "upsert" /\ rowIdx > Len(df) /\ pc' = "loop"
            /\ db' = WriteRows(db, df, 1)
       /\ (pc = "upsert" /\ pc' = "aborted") => db' = db]_vars

C7_Witness ==
    /\ pc = "aborted"
    /\ Len(df) = 2
    /\ rowIdx = 2
    /\ \A i \in 1..Len(df) : ~BagIn(df[i], db)

\* C8: a sweep leaves stock_data (and the set of tables) unchanged whatever
\* it finds, and no step of the downloader changes the tickers table.
C8_SweeperFrame ==
    [][/\ sweepStatus' # "idle" => db' = db /\ tables' = tables
       /\ sweepStatus' = "idle" => tickersTbl' = tickersTbl /\ tables' = tables]_vars

C8_Witness ==
    /\ sweepStatus # "idle"
    /\ abandoned # {}
    /\ "tickers" \in tables
    /\ \A t \in abandoned : RowsOf(db, t) # {}

\* C9: once a symbol has been skipped as abandoned, every later decision for
\* it is again SKIP_ABANDONED, no fetch is started for it and its stored
\* rows never change.
C9_AbandonAbsorbing ==
    [][\A t \in Symbols :
        decision[t] = "SKIP_ABANDONED" =>
            /\ decision'[t] = "SKIP_ABANDONED"
            /\ ~(pc' = "fetch" /\ tickers[idx'] = t)
            /\ \A r \in BagToSet(db) \cup BagToSet(db') :
                 r.ticker = t => CopiesIn(r, db') = CopiesIn(r, db)]_vars

C9_Witness ==
    /\ pc = "loop"
    /\ idx <= Len(tickers)
    /\ decision[tickers[idx]] = "SKIP_ABANDONED"
    /\ today - LatestDay(db, tickers[idx]) > 2 * abandon_days

\* C10: every row a run writes for a symbol is dated after that symbol's
\* latest stored date, so no stored row is ever deleted or changed and no
\* symbol's latest stored date decreases.
C10_AppendOnly ==
    [][/\ \A r \in BagToSet(db) : CopiesIn(r, db') = CopiesIn(r, db)
       /\ \A r \in BagToSet(db') :
            (~BagIn(r, db) /\ StoredDays(db, r.ticker) # {}) =>
                to_datetime(r.date) > LatestDay(db, r.ticker)
       /\ \A t \in Symbols :
            StoredDays(db, t) # {} =>
                /\ StoredDays(db', t) # {}
                /\ LatestDay(db', t) >= LatestDay(db, t)]_vars

C10_Witness ==
    /\ pc = "upsert"
    /\ rowIdx > Len(df)
    /\ Cardinality(RowsOf(db, tickers[idx])) >= 2
    /\ txn # db

====
